---------------------------- MODULE Spec2Model ----------------------------
(***************************************************************************)
(* ULTRETH: the node connector (connect_to_node), the mempool poller       *)
(* (subscribe_to_pending_transactions), the block watcher                  *)
(* (subscribe_to_blocks) and the coordinating loop of main, as one state   *)
(* machine.  The RPC node is the environment: every query outcome is a     *)
(* nondeterministic input of the step that awaits it.                      *)
(***************************************************************************)
EXTENDS Integers, Sequences, FiniteSets, TLC

(***************************************************************************)
(* Bounds of the model.  The two queue capacities and the window ceiling   *)
(* are the program's 1000, 100 and 10000 scaled down; the drained prefix   *)
(* (5000 = 10000 / 2 in the source) is DrainCount, half of the ceiling.    *)
(***************************************************************************)
NumIds == 3
\* transaction ids the node can report: 1..NumIds
MaxHeight == 3
\* chain heights the node can report: 1..MaxHeight
MaxRate == 3
\* configured rate limits: 0..MaxRate
Ceiling == 2
\* stands for the 10000 of `last_txs.len() > 10000`
TxCap == 1
\* stands for mpsc::channel(1000)
BlockCap == 1
\* stands for mpsc::channel(100)
MaxWindow == 5
\* the longest new_txs handed to the compaction on its own

(***************************************************************************)
(* Program constants.                                                      *)
(***************************************************************************)
max_retries == 3
MsPerSecond == 1000
MethodNotFound == -32601
CannotFulfill == -32046
TickSeconds == 1

Ids == 1..NumIds
Heights == 1..MaxHeight
Rates == 0..MaxRate
None == 0
\* the absent value of an Option over Ids or Heights (both start at 1)

VARIABLES
    cfg,                \* the parsed command line (Cli)
    mainPc,             \* main's position
    connPc,             \* connect_to_node's position
    retry_count,        \* connect_to_node's retry_count
    probes,             \* history: the outcome of each liveness probe, in order
    sleeps,             \* history: retry sleeps taken by connect_to_node
    connResult,         \* what connect_to_node returned
    mpPc,               \* the mempool poller task's position
    delay_ms,           \* subscribe_to_pending_transactions' delay_ms
    last_txs,           \* its last_txs
    new_txs,            \* its new_txs (bulk path)
    todo,               \* the ids of the current cycle still to iterate
    tx,                 \* the id whose detail the last get_transaction returned, or None
    gap,                \* history: ms between the last two cycle starts, -1 if none
    txQueue,            \* the transaction channel
    bwPc,               \* the block watcher task's position
    last_block_number,  \* subscribe_to_blocks' last_block_number (None: absent)
    bwItem,             \* the height whose send is awaiting room, or None
    blockQueue,         \* the block channel
    interruptQ,         \* the interrupt channel (capacity 1): items in it
    idle,               \* seconds the sleep of the current select! has run
    emitted,            \* history: ids ever handed to txQueue
    recorded,           \* history: ids ever pushed to new_txs or last_txs
    bulkSeen,           \* history: a txpool_content query has succeeded
    current_block,      \* the height its last successful query returned
    bwEmitted,          \* history: the heights of the last two emitted blocks
    bwFirst             \* history: whether the first successful cycle called get_block

vars == <<cfg, mainPc, connPc, retry_count, probes, sleeps, connResult,
          mpPc, delay_ms, last_txs, new_txs, todo, tx, gap, txQueue,
          bwPc, last_block_number, bwItem, blockQueue, interruptQ, idle,
          emitted, recorded, bulkSeen, current_block, bwEmitted,
          bwFirst>>

connVars == <<connPc, retry_count, probes, sleeps, connResult>>
mpVars == <<mpPc, delay_ms, last_txs, new_txs, todo, tx, gap,
            emitted, recorded, bulkSeen>>
bwVars == <<bwPc, last_block_number, current_block, bwItem, bwEmitted, bwFirst>>

(***************************************************************************)
(* Helpers on sequences.                                                   *)
(***************************************************************************)
Range(s) == {s[i] : i \in 1..Len(s)}

Contains(s, x) == x \in Range(s)

Min(S) == CHOOSE x \in S : \A y \in S : x <= y

RECURSIVE SortedSeq(_)
SortedSeq(S) == IF S = {} THEN <<>> ELSE <<Min(S)>> \o SortedSeq(S \ {Min(S)})

\* Vec::drain(0..n): the vector without its first n elements.
Drain(s, n) == SubSeq(s, n + 1, Len(s))

(***************************************************************************)
(* The command line.                                                       *)
(***************************************************************************)
CmdOpts == {"None", "Pending", "Blocks", "All"}

\* A variant whose default command is Pending.
CommandDefaultPending(c) == IF c = "None" THEN "Pending" ELSE c

\* cli.command.unwrap_or(Commands::All)
Command(c) == IF c = "None" THEN "All" ELSE c

Configs == [list_endpoints : BOOLEAN, endpointOk : BOOLEAN,
            rate_limit : Rates, command : CmdOpts]

(***************************************************************************)
(* The error a liveness probe returns, as its Display text matters to      *)
(* get_error_code: whether it holds "code: -", the number after the sign   *)
(* up to the first ',' (or, with no ',', the first ')'), whether that text *)
(* parses as an i32, and which of the two ends it.                         *)
(***************************************************************************)
ErrCodes == {MethodNotFound, CannotFulfill, -32000}

\* The client library prints a JSON-RPC error as "(code: c, message: ...)";
\* ')' right after the number is the other ending get_error_code reads.
ErrEnds == {"comma", "paren"}

ProbeErrors == [marker : BOOLEAN, code : ErrCodes, numeric : BOOLEAN,
                end : ErrEnds]

\* The JSON-RPC error code the text carries, None when it carries none.
EmbeddedCode(e) == IF e.marker /\ e.numeric THEN e.code ELSE None

\* A variant that reads the code only when ',' ends it.
get_error_code_comma_only(e) ==
    IF ~e.marker THEN None
    ELSE IF e.end # "comma" THEN None
    ELSE IF ~e.numeric THEN None
    ELSE e.code

\* Option<i32>; None when the text holds no parsable code.
get_error_code(e) ==
    IF ~e.marker THEN None
    ELSE IF e.end \notin {"comma", "paren"} THEN None
    ELSE IF ~e.numeric THEN None
    ELSE e.code

ProbeOutcomes == {[kind |-> "ok"], [kind |-> "timeout"]}
                 \cup {[kind |-> "err", err |-> e] : e \in ProbeErrors}

\* What the history keeps of a probe: its kind and the code it carried.
Summary(o) == [kind |-> o.kind,
               code |-> IF o.kind = "err" THEN EmbeddedCode(o.err) ELSE None]

(***************************************************************************)
(* Initial state: the process has parsed its command line.                 *)
(***************************************************************************)
Init ==
    /\ cfg \in Configs
    /\ mainPc = "start"
    /\ connPc = "idle"
    /\ retry_count = 0
    /\ probes = <<>>
    /\ sleeps = 0
    /\ connResult = "none"
    /\ mpPc = "off"
    /\ delay_ms = 0
    /\ last_txs = <<>>
    /\ new_txs = <<>>
    /\ todo = <<>>
    /\ tx = None
    /\ gap = -1
    /\ txQueue = <<>>
    /\ bwPc = "off"
    /\ last_block_number = None
    /\ bwItem = None
    /\ blockQueue = <<>>
    /\ interruptQ = 0
    /\ idle = 0
    /\ emitted = {}
    /\ recorded = {}
    /\ bulkSeen = FALSE
    /\ current_block = None
    /\ bwEmitted = <<None, None>>
    /\ bwFirst = "none"

(***************************************************************************)
(* main, up to the connection.                                             *)
(***************************************************************************)
\* main.rs 58-82: --list-endpoints prints the list and returns Ok.
ListEndpoints ==
    /\ mainPc = "start"
    /\ cfg.list_endpoints
    /\ mainPc' = "exit_ok"
    /\ UNCHANGED <<cfg, connVars, mpVars, txQueue, bwVars, blockQueue, interruptQ, idle>>

\* A variant that builds the provider without validating the endpoint.
ConnectStartUnvalidated ==
    /\ mainPc = "start"
    /\ ~cfg.list_endpoints
    /\ connPc' = "probe"
    /\ mainPc' = "connect"
    /\ UNCHANGED <<cfg, retry_count, probes, sleeps, connResult, mpVars, txQueue,
                   bwVars, blockQueue, interruptQ, idle>>

\* main.rs 90 and ethereum.rs 30-36: Provider::try_from(endpoint).
ConnectStart ==
    /\ mainPc = "start"
    /\ ~cfg.list_endpoints
    /\ IF cfg.endpointOk
          THEN /\ connPc' = "probe"
               /\ mainPc' = "connect"
               /\ connResult' = connResult
          ELSE /\ connPc' = "done"
               /\ connResult' = "invalid_endpoint"
               /\ mainPc' = "exit_err"
    /\ UNCHANGED <<cfg, retry_count, probes, sleeps, mpVars, txQueue,
                   bwVars, blockQueue, interruptQ, idle>>

\* A variant that counts only protocol errors against the budget.
ConnectFailureTimeoutsFree(cause) ==
    /\ retry_count' = IF cause = "timeout" THEN retry_count ELSE retry_count + 1
    /\ IF retry_count' >= max_retries
          THEN /\ connPc' = "done"
               /\ connResult' = cause
               /\ mainPc' = "exit_err"
          ELSE /\ connPc' = "sleep"
               /\ connResult' = connResult
               /\ mainPc' = mainPc

\* A variant whose budget test is > instead of >=.
ConnectFailureOffByOne(cause) ==
    /\ retry_count' = retry_count + 1
    /\ IF retry_count + 1 > max_retries
          THEN /\ connPc' = "done"
               /\ connResult' = cause
               /\ mainPc' = "exit_err"
          ELSE /\ connPc' = "sleep"
               /\ connResult' = connResult
               /\ mainPc' = mainPc

\* ethereum.rs 75-79 and 92-96: count the failure; give up or go to sleep.
ConnectFailure(cause) ==
    /\ retry_count' = retry_count + 1
    /\ IF retry_count + 1 >= max_retries
          THEN /\ connPc' = "done"
               /\ connResult' = cause
               /\ mainPc' = "exit_err"
          ELSE /\ connPc' = "sleep"
               /\ connResult' = connResult
               /\ mainPc' = mainPc

\* ethereum.rs 61-65: method not found, returned without a retry.
ConnectFatal ==
    /\ connPc' = "done"
    /\ connResult' = "fatal"
    /\ mainPc' = "exit_err"
    /\ retry_count' = retry_count

\* ethereum.rs 46-102: one pass of the loop, up to the return or the sleep.
Probe ==
    /\ mainPc = "connect"
    /\ connPc = "probe"
    /\ \E o \in ProbeOutcomes :
          /\ probes' = Append(probes, Summary(o))
          /\ \/ /\ o.kind = "ok"
                /\ connPc' = "done"
                /\ connResult' = "ok"
                /\ mainPc' = "spawn"
                /\ retry_count' = retry_count
             \/ /\ o.kind = "timeout"
                /\ ConnectFailure("timeout")
             \/ /\ o.kind = "err"
                /\ IF get_error_code(o.err) = MethodNotFound
                      THEN ConnectFatal
                      ELSE ConnectFailure("rpc_error")
    /\ UNCHANGED <<cfg, sleeps, mpVars, txQueue, bwVars, blockQueue, interruptQ, idle>>

\* ethereum.rs 83 and 100: sleep(retry_delay), then the next pass.
RetrySleep ==
    /\ mainPc = "connect"
    /\ connPc = "sleep"
    /\ sleeps' = sleeps + 1
    /\ connPc' = "probe"
    /\ UNCHANGED <<cfg, mainPc, retry_count, probes, connResult, mpVars,
                   txQueue, bwVars, blockQueue, interruptQ, idle>>

(***************************************************************************)
(* main: the channels, the spawned tasks, the Ctrl+C handler.              *)
(***************************************************************************)
\* main.rs 129-166: which tasks the command spawns.
SpawnsMempool(c) == Command(c) \in {"Pending", "All"}

SpawnsBlocks(c) == Command(c) \in {"Blocks", "All"}

\* main.rs 119-173: the tasks are spawned, then ctrlc::set_handler(..)? either
\* installs the handler or makes main return its error.
Spawn ==
    /\ mainPc = "spawn"
    /\ mpPc' = IF SpawnsMempool(cfg.command) THEN "init" ELSE "off"
    /\ bwPc' = IF SpawnsBlocks(cfg.command) THEN "query" ELSE "off"
    /\ \E installed \in BOOLEAN :
          mainPc' = IF installed THEN "select" ELSE "exit_err"
    /\ connPc' = "idle"
    /\ retry_count' = 0
    /\ probes' = <<>>
    /\ sleeps' = 0
    /\ connResult' = connResult
    /\ UNCHANGED <<cfg, delay_ms, last_txs, new_txs, todo, tx, gap,
                   emitted, recorded, bulkSeen, txQueue,
                   last_block_number, current_block, bwItem, bwEmitted, bwFirst,
                   blockQueue, interruptQ>>
    /\ idle' = 0

\* The spawned tasks run while main is in its loop; they end with the process.
Running == mainPc = "select"

(***************************************************************************)
(* subscribe_to_pending_transactions                                       *)
(***************************************************************************)
\* What no step of the mempool task touches.
notMempool == <<cfg, mainPc, connVars, bwVars, blockQueue, interruptQ, idle>>

\* ethereum.rs 115: 1000 / rate_limit, u32 division.
PollerDelay(rate) == MsPerSecond \div rate

\* ethereum.rs 112-119.  Dividing by zero panics, which ends the task.
MpStart ==
    /\ Running
    /\ mpPc = "init"
    /\ IF cfg.rate_limit = 0
          THEN /\ mpPc' = "panicked"
               /\ delay_ms' = delay_ms
          ELSE /\ mpPc' = "query"
               /\ delay_ms' = PollerDelay(cfg.rate_limit)
    /\ UNCHANGED <<last_txs, new_txs, todo, tx, gap, emitted, recorded, bulkSeen,
                   txQueue, notMempool>>

\* ethereum.rs 122-127: txpool_content() returned Ok; its pending map is
\* iterated in key order.
MpQueryOk ==
    /\ Running
    /\ mpPc = "query"
    /\ \E listing \in SUBSET Ids : todo' = SortedSeq(listing)
    /\ new_txs' = <<>>
    /\ bulkSeen' = TRUE
    /\ gap' = -1
    /\ mpPc' = "bulk"
    /\ UNCHANGED <<delay_ms, last_txs, tx, emitted, recorded, txQueue, notMempool>>

\* ethereum.rs 153-156: txpool_content() failed; get_block(Pending) returned
\* a block, whose transactions are taken in the same order as the map's.
MpQueryFallback ==
    /\ Running
    /\ mpPc = "query"
    /\ \E listing \in SUBSET Ids : todo' = SortedSeq(listing)
    /\ gap' = -1
    /\ mpPc' = "fallback"
    /\ UNCHANGED <<delay_ms, last_txs, new_txs, tx, emitted, recorded, bulkSeen,
                   txQueue, notMempool>>

\* A variant in which the failure of both queries is returned to main with ?.
MpQueryFailPropagates ==
    /\ Running
    /\ mpPc = "query"
    /\ mpPc' = "off"
    /\ mainPc' = "exit_err"
    /\ UNCHANGED <<delay_ms, last_txs, new_txs, todo, tx, gap, emitted, recorded,
                   bulkSeen, txQueue, cfg, connVars, bwVars, blockQueue,
                   interruptQ, idle>>

\* A variant in which the failure of both queries ends the task.
MpQueryFailReturns ==
    /\ Running
    /\ mpPc = "query"
    /\ mpPc' = "returned"
    /\ UNCHANGED <<delay_ms, last_txs, new_txs, todo, tx, gap, emitted, recorded,
                   bulkSeen, txQueue, notMempool>>

\* ethereum.rs 153-156, 169: both queries failed, or there is no pending block.
MpQueryFail ==
    /\ Running
    /\ mpPc = "query"
    /\ gap' = -1
    /\ mpPc' = "pace"
    /\ UNCHANGED <<delay_ms, last_txs, new_txs, todo, tx, emitted, recorded,
                   bulkSeen, txQueue, notMempool>>

\* A variant whose channel takes the item twice.
EmitTxTwice(id) ==
    /\ txQueue' = txQueue \o <<id, id>>
    /\ emitted' = emitted \cup {id}

\* tx_sender.send(tx).await with room in the channel.
EmitTx(id) ==
    /\ txQueue' = Append(txQueue, id)
    /\ emitted' = emitted \cup {id}

\* A variant that looks the id up in new_txs, the ids of this cycle.
BulkIsNewAgainstNew(id) == ~Contains(new_txs, id)

\* A variant that compares only the lowest bit of the hashes.
BulkIsNewLowBit(id) == \A i \in 1..Len(last_txs) : last_txs[i] % 2 # id % 2

\* ethereum.rs 135: the dedup check of the bulk path.
BulkIsNew(id) == ~Contains(last_txs, id)

\* ethereum.rs 142: new_txs.push(tx_hash).
BulkRecord(id) ==
    /\ new_txs' = Append(new_txs, id)
    /\ recorded' = recorded \cup {id}

\* ethereum.rs 132-143: one entry of the pending map.  A send that finds the
\* channel full waits (BulkSend) before the push of line 142.
BulkItem ==
    /\ Running
    /\ mpPc = "bulk"
    /\ todo # <<>>
    /\ todo' = Tail(todo)
    /\ LET id == Head(todo) IN
         IF ~BulkIsNew(id)
           THEN /\ tx' = None
                /\ UNCHANGED <<mpPc, new_txs, emitted, recorded, txQueue>>
           ELSE \E got \in BOOLEAN :
                  IF ~got
                    THEN /\ tx' = None
                         /\ BulkRecord(id)
                         /\ UNCHANGED <<mpPc, emitted, txQueue>>
                    ELSE /\ tx' = id
                         /\ IF Len(txQueue) < TxCap
                              THEN /\ EmitTx(id)
                                   /\ BulkRecord(id)
                                   /\ mpPc' = mpPc
                              ELSE /\ mpPc' = "bulk_send"
                                   /\ UNCHANGED <<new_txs, recorded, emitted,
                                                  txQueue>>
    /\ UNCHANGED <<delay_ms, last_txs, gap, bulkSeen, notMempool>>

\* A variant of the waiting send that does not wait for room.
BulkSendUnbounded ==
    /\ Running
    /\ mpPc = "bulk_send"
    /\ EmitTx(tx)
    /\ BulkRecord(tx)
    /\ mpPc' = "bulk"
    /\ UNCHANGED <<delay_ms, last_txs, todo, tx, gap, bulkSeen, notMempool>>

\* ethereum.rs 138-142: the waiting send completes once the channel has room.
BulkSend ==
    /\ Running
    /\ mpPc = "bulk_send"
    /\ Len(txQueue) < TxCap
    /\ EmitTx(tx)
    /\ BulkRecord(tx)
    /\ mpPc' = "bulk"
    /\ UNCHANGED <<delay_ms, last_txs, todo, tx, gap, bulkSeen, notMempool>>

\* ethereum.rs 150: drain(0..5000), half of the ceiling.
DrainCount == Ceiling \div 2

\* ethereum.rs 149-151.
Compact(s) == IF Len(s) > Ceiling THEN Drain(s, DrainCount) ELSE s

\* ethereum.rs 148: what the bulk path leaves in last_txs.
BulkWindow == new_txs

\* ethereum.rs 147-151: the end of a bulk cycle.
BulkEnd ==
    /\ Running
    /\ mpPc = "bulk"
    /\ todo = <<>>
    /\ last_txs' = Compact(BulkWindow)
    /\ new_txs' = <<>>
    /\ tx' = None
    /\ mpPc' = "pace"
    /\ UNCHANGED <<delay_ms, todo, gap, emitted, recorded, bulkSeen, txQueue,
                   notMempool>>

\* A variant without the dedup check.
FallbackIsNewAlways(id) == TRUE

\* ethereum.rs 159: the dedup check of the fallback path.
FallbackIsNew(id) == ~Contains(last_txs, id)

\* A variant that forgets the push of line 165.
FallbackRecordNothing(id) ==
    /\ last_txs' = last_txs
    /\ recorded' = recorded

\* ethereum.rs 165: last_txs.push(tx.hash).
FallbackRecord(id) ==
    /\ last_txs' = Append(last_txs, id)
    /\ recorded' = recorded \cup {id}

\* ethereum.rs 157-167: one transaction of the pending block.
FallbackItem ==
    /\ Running
    /\ mpPc = "fallback"
    /\ todo # <<>>
    /\ todo' = Tail(todo)
    /\ LET id == Head(todo) IN
         \E got \in BOOLEAN :
           IF ~got
             THEN /\ tx' = None
                  /\ UNCHANGED <<mpPc, last_txs, emitted, recorded, txQueue>>
             ELSE /\ tx' = id
                  /\ IF ~FallbackIsNew(id)
                       THEN UNCHANGED <<mpPc, last_txs, emitted, recorded, txQueue>>
                       ELSE IF Len(txQueue) < TxCap
                              THEN /\ EmitTx(id)
                                   /\ FallbackRecord(id)
                                   /\ mpPc' = mpPc
                              ELSE /\ mpPc' = "fallback_send"
                                   /\ UNCHANGED <<last_txs, recorded, emitted,
                                                  txQueue>>
    /\ UNCHANGED <<delay_ms, new_txs, gap, bulkSeen, notMempool>>

\* ethereum.rs 162-165: the waiting send completes once the channel has room.
FallbackSend ==
    /\ Running
    /\ mpPc = "fallback_send"
    /\ Len(txQueue) < TxCap
    /\ EmitTx(tx)
    /\ FallbackRecord(tx)
    /\ mpPc' = "fallback"
    /\ UNCHANGED <<delay_ms, new_txs, todo, tx, gap, bulkSeen, notMempool>>

\* A variant in which the cycle may end with transactions of the block left.
FallbackEndEarly ==
    /\ Running
    /\ mpPc = "fallback"
    /\ todo' = <<>>
    /\ tx' = None
    /\ mpPc' = "pace"
    /\ UNCHANGED <<delay_ms, last_txs, new_txs, gap, emitted, recorded,
                   bulkSeen, txQueue, notMempool>>

\* ethereum.rs 168-170: the end of a fallback cycle.
FallbackEnd ==
    /\ Running
    /\ mpPc = "fallback"
    /\ todo = <<>>
    /\ tx' = None
    /\ mpPc' = "pace"
    /\ UNCHANGED <<delay_ms, last_txs, new_txs, todo, gap, emitted, recorded,
                   bulkSeen, txQueue, notMempool>>

\* The processing times of a cycle that the model tries: none, just under,
\* exactly and just over the delay.
Elapsed(delay) == {0, delay - 1, delay, delay + 1}

\* A variant that sleeps the elapsed time instead of the remainder.
PaceSleepElapsed(elapsed, delay) == IF elapsed < delay THEN elapsed ELSE 0

\* ethereum.rs 175-177: the sleep that ends a cycle.
PaceSleep(elapsed, delay) == IF elapsed < delay THEN delay - elapsed ELSE 0

\* ethereum.rs 173-178 and 122: the cycle ends; the next one starts.
Pace ==
    /\ Running
    /\ mpPc = "pace"
    /\ \E elapsed \in Elapsed(delay_ms) :
         gap' = elapsed + PaceSleep(elapsed, delay_ms)
    /\ mpPc' = "query"
    /\ UNCHANGED <<delay_ms, last_txs, new_txs, todo, tx, emitted, recorded,
                   bulkSeen, txQueue, notMempool>>

(***************************************************************************)
(* subscribe_to_blocks                                                     *)
(***************************************************************************)
\* A variant that also takes the first height seen for a new block.
IsNewBlockOrFirst(last, current) == last = None \/ current > last

\* ethereum.rs 195-196: whether the cycle fetches the block at `current`.
IsNewBlock(last, current) == last # None /\ current > last

\* A variant that catches up one height at a time: it emits the block
\* after last_block_number.
EmitBlockNextHeight(h) ==
    /\ blockQueue' = Append(blockQueue, last_block_number + 1)
    /\ bwEmitted' = <<bwEmitted[2], last_block_number + 1>>

\* block_sender.send(block).await with room in the channel.
EmitBlock(h) ==
    /\ blockQueue' = Append(blockQueue, h)
    /\ bwEmitted' = <<bwEmitted[2], h>>

\* ethereum.rs 206: what the cycle leaves in last_block_number.
NextLast(last, current) == current

\* ethereum.rs 192-207, 214: get_block_number() returned Ok(current).  A send
\* that finds the channel full waits (BlockSend) before line 206.
BlockQueryOk ==
    /\ Running
    /\ bwPc = "query"
    /\ \E current \in Heights :
         /\ current_block' = current
         /\ bwFirst' = IF bwFirst # "none" THEN "past"
                       ELSE IF IsNewBlock(last_block_number, current)
                              THEN "fetched" ELSE "skipped"
         /\ IF ~IsNewBlock(last_block_number, current)
              THEN /\ last_block_number' = NextLast(last_block_number, current)
                   /\ bwPc' = "sleep"
                   /\ UNCHANGED <<bwItem, bwEmitted, blockQueue>>
              ELSE \E present \in BOOLEAN :
                     IF ~present
                       THEN /\ last_block_number' =
                                   NextLast(last_block_number, current)
                            /\ bwPc' = "sleep"
                            /\ UNCHANGED <<bwItem, bwEmitted, blockQueue>>
                       ELSE IF Len(blockQueue) < BlockCap
                              THEN /\ EmitBlock(current)
                                   /\ last_block_number' =
                                          NextLast(last_block_number, current)
                                   /\ bwPc' = "sleep"
                                   /\ bwItem' = bwItem
                              ELSE /\ bwItem' = current
                                   /\ bwPc' = "send"
                                   /\ UNCHANGED <<last_block_number, bwEmitted,
                                                  blockQueue>>
    /\ UNCHANGED <<cfg, mainPc, connVars, mpVars, txQueue, interruptQ, idle>>

\* A variant in which the failed query ends the task.
BlockQueryErrReturns ==
    /\ Running
    /\ bwPc = "query"
    /\ bwPc' = "returned"
    /\ UNCHANGED <<cfg, mainPc, connVars, mpVars, txQueue, last_block_number,
                   current_block, bwItem, bwEmitted, bwFirst, blockQueue,
                   interruptQ, idle>>

\* ethereum.rs 208-210, 214: get_block_number() failed.
BlockQueryErr ==
    /\ Running
    /\ bwPc = "query"
    /\ bwPc' = "sleep"
    /\ UNCHANGED <<cfg, mainPc, connVars, mpVars, txQueue, last_block_number,
                   current_block, bwItem, bwEmitted, bwFirst, blockQueue,
                   interruptQ, idle>>

\* ethereum.rs 199-206: the waiting send completes once the channel has room.
BlockSend ==
    /\ Running
    /\ bwPc = "send"
    /\ Len(blockQueue) < BlockCap
    /\ EmitBlock(bwItem)
    /\ last_block_number' = NextLast(last_block_number, bwItem)
    /\ bwItem' = None
    /\ bwPc' = "sleep"
    /\ UNCHANGED <<cfg, mainPc, connVars, mpVars, txQueue, current_block, bwFirst,
                   interruptQ, idle>>

\* ethereum.rs 214: sleep(1 s), then the next cycle.
BlockSleep ==
    /\ Running
    /\ bwPc = "sleep"
    /\ bwPc' = "query"
    /\ UNCHANGED <<cfg, mainPc, connVars, mpVars, txQueue, last_block_number,
                   current_block, bwItem, bwEmitted, bwFirst, blockQueue,
                   interruptQ, idle>>

(***************************************************************************)
(* main's event loop                                                       *)
(***************************************************************************)
\* A variant whose timer runs on across the iterations of the loop.
RecvTxKeepsTimer ==
    /\ mainPc = "select"
    /\ txQueue # <<>>
    /\ txQueue' = Tail(txQueue)
    /\ UNCHANGED <<cfg, mainPc, connVars, mpVars, bwVars, blockQueue, interruptQ,
                   idle>>

\* main.rs 182-186.
RecvTx ==
    /\ mainPc = "select"
    /\ txQueue # <<>>
    /\ txQueue' = Tail(txQueue)
    /\ UNCHANGED <<cfg, mainPc, connVars, mpVars, bwVars, blockQueue, interruptQ>>
    /\ idle' = 0

\* main.rs 187-197.
RecvBlock ==
    /\ mainPc = "select"
    /\ blockQueue # <<>>
    /\ blockQueue' = Tail(blockQueue)
    /\ UNCHANGED <<cfg, mainPc, connVars, mpVars, txQueue, bwVars, interruptQ>>
    /\ idle' = 0

\* main.rs 171-173: the handler's try_send on the capacity-1 channel.
CtrlC ==
    /\ mainPc = "select"
    /\ interruptQ = 0
    /\ interruptQ' = 1
    /\ UNCHANGED <<cfg, mainPc, connVars, mpVars, txQueue, bwVars, blockQueue,
                   idle>>

\* A variant that takes the interrupt without leaving the loop.
RecvInterruptNoBreak ==
    /\ mainPc = "select"
    /\ interruptQ = 1
    /\ interruptQ' = 0
    /\ UNCHANGED <<cfg, mainPc, connVars, mpVars, txQueue, bwVars, blockQueue,
                   idle>>

\* main.rs 198-208 and 219: break, return Ok; the process ends.
RecvInterrupt ==
    /\ mainPc = "select"
    /\ interruptQ = 1
    /\ interruptQ' = 0
    /\ mainPc' = "exit_ok"
    /\ UNCHANGED <<cfg, connVars, mpVars, txQueue, bwVars, blockQueue,
                   idle>>

\* No branch of select! can complete: both channels and the interrupt
\* channel are empty.
NothingReady == txQueue = <<>> /\ blockQueue = <<>> /\ interruptQ = 0

\* main.rs 181, 209: select! is waiting with nothing ready, and a second of
\* its sleep(1 s) passes.
IdleSecond ==
    /\ mainPc = "select"
    /\ NothingReady
    /\ idle < TickSeconds
    /\ idle' = idle + 1
    /\ UNCHANGED <<cfg, mainPc, connVars, mpVars, txQueue, bwVars, blockQueue,
                   interruptQ>>

\* main.rs 209-215: the sleep has completed; the rate is printed and the
\* loop starts its next iteration, with a new sleep.
Tick ==
    /\ mainPc = "select"
    /\ idle = TickSeconds
    /\ idle' = 0
    /\ UNCHANGED <<cfg, mainPc, connVars, mpVars, txQueue, bwVars, blockQueue,
                   interruptQ>>

(***************************************************************************)
(* Specifications.  The two pollers share no state, so each is checked     *)
(* with main and the coordinating loop under the command that spawns it    *)
(* alone; SpecConnect is main up to the return of connect_to_node.         *)
(***************************************************************************)
MainNext ==
    \/ ListEndpoints
    \/ ConnectStart
    \/ Probe
    \/ RetrySleep

LoopNext ==
    \/ Spawn
    \/ CtrlC
    \/ RecvInterrupt

MempoolNext ==
    \/ MpStart
    \/ MpQueryOk
    \/ MpQueryFallback
    \/ MpQueryFail
    \/ BulkItem
    \/ BulkSend
    \/ BulkEnd
    \/ FallbackItem
    \/ FallbackSend
    \/ FallbackEnd
    \/ Pace

TickNext ==
    \/ IdleSecond
    \/ Tick

BlocksNext ==
    \/ BlockQueryOk
    \/ BlockQueryErr
    \/ BlockSend
    \/ BlockSleep

InitConnect == Init

NextConnect == MainNext

SpecConnect == InitConnect /\ [][NextConnect]_vars

InitPending == Init /\ cfg.command = "Pending"

NextPending == MainNext \/ LoopNext \/ MempoolNext \/ RecvTx

SpecPending == InitPending /\ [][NextPending]_vars

InitBlocks == Init /\ cfg.command = "Blocks"

NextBlocks == MainNext \/ LoopNext \/ BlocksNext \/ RecvBlock

SpecBlocks == InitBlocks /\ [][NextBlocks]_vars

\* Scheduling.  The runtime keeps polling a spawned task that can make
\* progress, and select! polls its branches in random order, so a branch
\* that stays ready is taken: weak fairness of the mempool task and of the
\* transaction branch.  One command line: a valid endpoint, one query a second.
InitCycling ==
    /\ InitPending
    /\ ~cfg.list_endpoints
    /\ cfg.endpointOk
    /\ cfg.rate_limit = 1

NextCycling ==
    \/ ConnectStart
    \/ Probe
    \/ RetrySleep
    \/ LoopNext
    \/ MempoolNext
    \/ RecvTx

FairPending ==
    /\ InitCycling
    /\ [][NextCycling]_vars
    /\ WF_vars(MempoolNext)
    /\ WF_vars(RecvTx)

\* For the block command only the interrupt branch is assumed fair.
FairBlocks == SpecBlocks /\ WF_vars(RecvInterrupt)

\* The block watcher with its own scheduling assumed fair too.
FairWatcher ==
    /\ SpecBlocks
    /\ WF_vars(BlocksNext)
    /\ WF_vars(RecvBlock)

\* The loop of main with its sleep branch, under the command line of
\* InitCycling.
NextTick == NextCycling \/ TickNext

SpecTick == InitCycling /\ [][NextTick]_vars

\* Every command.  The states of the two tasks multiply, so under All (and
\* with no command) the rate limit is 0: the mempool task is spawned and
\* panics at its first step, next to the running block watcher.
InitModes == Init /\ (Command(cfg.command) = "All" => cfg.rate_limit = 0)

NextModes ==
    \/ MainNext
    \/ LoopNext
    \/ MempoolNext
    \/ BlocksNext
    \/ RecvTx
    \/ RecvBlock

SpecModes == InitModes /\ [][NextModes]_vars

\* The inputs of the compaction: the entries' values play no part in it,
\* only their number and order do.
RECURSIVE SeqsUpTo(_, _)
SeqsUpTo(S, n) ==
    IF n = 0 THEN {<<>>}
    ELSE LET shorter == SeqsUpTo(S, n - 1)
         IN  shorter \cup {Append(w, x) : w \in shorter, x \in S}

\* The end of a bulk cycle (none of whose fetches succeeded) with any
\* new_txs of up to MaxWindow entries, all different as the hashes of one
\* listing are.
InitCompact ==
    /\ cfg = [list_endpoints |-> FALSE, endpointOk |-> TRUE,
              rate_limit |-> 1, command |-> "Pending"]
    /\ mainPc = "select"
    /\ connPc = "idle"
    /\ retry_count = 0
    /\ probes = <<>>
    /\ sleeps = 0
    /\ connResult = "ok"
    /\ mpPc = "bulk"
    /\ delay_ms = PollerDelay(1)
    /\ last_txs = <<>>
    /\ new_txs \in {w \in SeqsUpTo(1..MaxWindow, MaxWindow) :
                        Cardinality(Range(w)) = Len(w)}
    /\ todo = <<>>
    /\ tx = None
    /\ gap = -1
    /\ txQueue = <<>>
    /\ bwPc = "off"
    /\ last_block_number = None
    /\ bwItem = None
    /\ blockQueue = <<>>
    /\ interruptQ = 0
    /\ idle = 0
    /\ emitted = {}
    /\ recorded = Range(new_txs)
    /\ bulkSeen = TRUE
    /\ current_block = None
    /\ bwEmitted = <<None, None>>
    /\ bwFirst = "none"

NextCompact == BulkEnd

SpecCompact == InitCompact /\ [][NextCompact]_vars

\* The whole program, under any command.
Next ==
    \/ MainNext
    \/ LoopNext
    \/ MempoolNext
    \/ BlocksNext
    \/ RecvTx
    \/ RecvBlock
    \/ TickNext

Spec == Init /\ [][Next]_vars

(***************************************************************************)
(* The connector                                                           *)
(***************************************************************************)
AllTimeouts == probes # <<>> /\ \A i \in 1..Len(probes) : probes[i].kind = "timeout"

Returned == connPc = "done"

\* C7: when every liveness probe times out, connect (max_retries = 3) makes
\* exactly 3 probes and then returns a failure: it has not returned before
\* the third probe, and there is no fourth.
C7_TimeoutsExhaustBudget ==
    AllTimeouts =>
        /\ Len(probes) <= max_retries
        /\ Returned <=> Len(probes) = max_retries
        /\ Returned => connResult = "timeout" /\ mainPc = "exit_err"

\* Three timeouts, two sleeps between them, then the failure.
C7_Witness ==
    /\ AllTimeouts
    /\ Len(probes) = max_retries
    /\ Returned
    /\ connResult = "timeout"
    /\ sleeps = max_retries - 1

IsMethodNotFound(p) == p.kind = "err" /\ p.code = MethodNotFound

\* C8: a probe error carrying the code -32601 makes connect return a failure
\* at once: that probe is the last one, no retry sleep follows it, whatever
\* number of attempts came before; on the first probe that is one attempt.
C8_MethodNotFoundIsFatal ==
    \A i \in 1..Len(probes) :
        IsMethodNotFound(probes[i]) =>
            /\ i = Len(probes)
            /\ Returned
            /\ connResult = "fatal"
            /\ mainPc = "exit_err"
            /\ sleeps = i - 1
            /\ retry_count = i - 1

\* The code -32601 arrives on the second probe, after a timeout.
C8_Witness ==
    /\ Len(probes) = 2
    /\ probes[1].kind = "timeout"
    /\ IsMethodNotFound(probes[2])
    /\ Returned

\* C15: a malformed endpoint makes connect return its failure at once: no
\* liveness probe is issued, retry_count stays 0 and no retry sleep is taken.
C15_MalformedEndpointFailsAtOnce ==
    (~cfg.endpointOk /\ ~cfg.list_endpoints /\ mainPc # "start") =>
        /\ Returned
        /\ connResult = "invalid_endpoint"
        /\ mainPc = "exit_err"
        /\ probes = <<>>
        /\ retry_count = 0
        /\ sleeps = 0

\* connect has returned the failure of Provider::try_from.
C15_Witness ==
    /\ ~cfg.endpointOk
    /\ Returned
    /\ connResult = "invalid_endpoint"
    /\ mainPc = "exit_err"

IsTransient(p) == p.kind = "timeout" \/ (p.kind = "err" /\ p.code # MethodNotFound)

\* C20: connect makes at most max_retries probes, whatever mix of timeouts
\* and transient errors they return, and always has a step to take until it
\* returns; a successful probe is the last one and returns the connection;
\* one retry sleep is taken between two probes and none after the last.
C20_ProbesBounded ==
    /\ Len(probes) <= max_retries
    /\ Len(probes) = max_retries => Returned
    /\ mainPc = "connect" => ~Returned /\ ENABLED NextConnect
    /\ \A i \in 1..Len(probes) :
          /\ probes[i].kind = "ok" =>
                i = Len(probes) /\ Returned /\ connResult = "ok" /\ mainPc = "spawn"
          /\ i < Len(probes) => IsTransient(probes[i])
    /\ connPc = "probe" => sleeps = Len(probes) /\ retry_count = Len(probes)
    /\ connPc = "sleep" =>
          /\ sleeps = Len(probes) - 1
          /\ retry_count = Len(probes)
          /\ Len(probes) < max_retries
    /\ (Returned /\ probes # <<>>) => sleeps = Len(probes) - 1

\* A timeout, a transient error and a success: three probes, two sleeps.
C20_Witness ==
    /\ Len(probes) = max_retries
    /\ probes[1].kind = "timeout"
    /\ probes[2].kind = "err"
    /\ probes[2].code = CannotFulfill
    /\ probes[3].kind = "ok"
    /\ connResult = "ok"
    /\ sleeps = max_retries - 1

(***************************************************************************)
(* The mempool poller                                                      *)
(***************************************************************************)
\* The step hands id to the transaction channel.
EmittedNow(id) ==
    /\ Len(txQueue') = Len(txQueue) + 1
    /\ txQueue'[Len(txQueue')] = id

\* The step is a fallback iteration whose get_transaction returned id's detail.
FallbackFetchedNow(id) ==
    /\ mpPc = "fallback"
    /\ todo # <<>>
    /\ todo' = Tail(todo)
    /\ tx' = id

\* C1: while fewer than Ceiling distinct ids have been recorded, no id is
\* handed to the transaction channel a second time, however many cycles
\* list it.
C1_NoReEmissionBelowCeiling ==
    [][\A id \in Ids :
          (Cardinality(recorded') < Ceiling /\ EmittedNow(id)) => id \notin emitted]_vars

\* C5: at the end of every polling cycle last_txs holds at most Ceiling ids.
C5_WindowBounded == mpPc = "pace" => Len(last_txs) <= Ceiling

\* C6: while every bulk query has failed, no id is emitted twice, and an id
\* whose detail a fallback iteration retrieves has been emitted, is emitted
\* by that step, or is the one send now waiting for room.
C6_FallbackExactlyOnce ==
    [][~bulkSeen' =>
          \A id \in Ids :
             /\ EmittedNow(id) => id \notin emitted
             /\ FallbackFetchedNow(id) =>
                   \/ id \in emitted'
                   \/ mpPc' = "fallback_send" /\ tx' = id]_vars

\* An id recorded in an earlier step of a fallback-only run has been fetched
\* again and suppressed.
C6_Witness ==
    /\ ~bulkSeen
    /\ mpPc = "fallback"
    /\ tx # None
    /\ tx \in emitted
    /\ Contains(last_txs, tx)
    /\ last_txs[Len(last_txs)] # tx

C10_ZeroRateRejected ==
    (cfg.rate_limit = 0 /\ ~cfg.list_endpoints) =>
        /\ probes = <<>>
        /\ connResult \in {"none", "invalid_endpoint"}
        /\ mpPc = "off"

\* C3: a running producer always has a step of its own to take: it is never
\* left waiting for the consumer.
C3_ProducerNeverWaits ==
    (Running /\ mpPc \notin {"off", "panicked"}) => ENABLED MempoolNext

\* C13: an id is handed to the transaction channel only while it is absent
\* from last_txs, on both paths and also when the send had to wait for room.
C13_NoEmissionWhileResident ==
    [][\A id \in Ids : EmittedNow(id) => ~Contains(last_txs, id)]_vars

\* A bulk cycle with a non-empty window has just emitted an id that is not
\* in the window.
C13_Witness ==
    /\ mpPc = "bulk"
    /\ last_txs # <<>>
    /\ tx # None
    /\ ~Contains(last_txs, tx)
    /\ new_txs # <<>>
    /\ new_txs[Len(new_txs)] = tx
    /\ txQueue # <<>>
    /\ txQueue[Len(txQueue)] = tx

C18_RecordedOnlyIfEmitted ==
    [][\A id \in Ids :
          (Len(new_txs') = Len(new_txs) + 1 /\ new_txs'[Len(new_txs')] = id)
              => EmittedNow(id)]_vars

\* The step handles one entry of the current listing.
ItemStep ==
    /\ mpPc \in {"bulk", "fallback"}
    /\ todo # <<>>
    /\ todo' = Tail(todo)

\* C19: within a cycle, on both paths, an entry whose fetch fails only moves
\* the cycle to the next entry; the cycle ends only when no entry is left;
\* and every entry that is absent from last_txs and whose detail is
\* retrieved is handed to the channel, by that step or by the waiting send,
\* which then resumes the same cycle.
C19_FetchFailureSkipsOneItem ==
    [][/\ ItemStep => mpPc' \in {mpPc, "bulk_send", "fallback_send"}
       /\ \A id \in Ids :
             (ItemStep /\ tx' = id /\ ~Contains(last_txs, id)) =>
                 \/ EmittedNow(id) /\ mpPc' = mpPc
                 \/ mpPc = "bulk" /\ mpPc' = "bulk_send"
                 \/ mpPc = "fallback" /\ mpPc' = "fallback_send"
       /\ (mpPc \in {"bulk", "fallback"} /\ mpPc' = "pace") => todo = <<>>
       /\ (mpPc = "bulk_send" /\ mpPc' # mpPc) =>
             EmittedNow(tx) /\ todo' = todo /\ mpPc' = "bulk"
       /\ (mpPc = "fallback_send" /\ mpPc' # mpPc) =>
             EmittedNow(tx) /\ todo' = todo /\ mpPc' = "fallback"]_vars

\* In one bulk cycle the fetch of the first new entry failed and the second
\* new entry has been emitted.
C19_Witness ==
    /\ mpPc = "bulk"
    /\ Len(new_txs) = 2
    /\ new_txs[1] \notin emitted
    /\ new_txs[2] \in emitted
    /\ tx = new_txs[2]
    /\ txQueue # <<>>
    /\ txQueue[Len(txQueue)] = tx

\* The process is in its loop and the mempool task has not panicked.
TaskAlive == Running /\ mpPc \notin {"off", "panicked"}

\* C11: as long as the process is not ended from outside, the mempool task
\* starts a new cycle again and again: every cycle comes to its end,
\* whatever failed in it, and is followed by the next one.
C11_PollerKeepsCycling == <>[]TaskAlive => []<><<Pace>>_vars

\* After a cycle whose bulk query failed and in which nothing was retrieved,
\* the next cycle has started.
C11_Witness ==
    /\ mainPc = "select"
    /\ mpPc = "query"
    /\ gap # -1
    /\ ~bulkSeen
    /\ recorded = {}

\* C21: when new_txs is longer than Ceiling at the end of a bulk cycle, the
\* compaction leaves its newest half in last_txs: the oldest half is gone,
\* whichever way an odd length is halved.
C21_CompactionEvictsOldestHalf ==
    [][(mpPc = "bulk" /\ mpPc' = "pace" /\ Len(new_txs) > Ceiling) =>
          LET n == Len(new_txs)
              kept == Len(last_txs')
          IN  /\ kept \in {n \div 2, n - (n \div 2)}
              /\ last_txs' = SubSeq(new_txs, n - kept + 1, n)]_vars

C25_FallbackIdsSuppressBulk ==
    [][\A id \in Ids :
          /\ (mpPc \in {"fallback", "fallback_send"} /\ EmittedNow(id)) =>
                Contains(last_txs', id)
          /\ (Contains(last_txs, id) /\ ~Contains(last_txs', id)) =>
                (mpPc = "bulk" /\ mpPc' = "pace")
          /\ (mpPc \in {"bulk", "bulk_send"} /\ EmittedNow(id)) =>
                ~Contains(last_txs, id)
          /\ (mpPc = "bulk" /\ ItemStep /\ Head(todo) = id
                /\ Contains(last_txs, id)) =>
                (txQueue' = txQueue /\ mpPc' = "bulk" /\ tx' = None)]_vars

\* A bulk cycle is at an entry that the fallback path emitted and recorded:
\* last_txs is out of the listing order, which only fallback cycles produce.
C25_Witness ==
    /\ mpPc = "bulk"
    /\ Len(last_txs) >= 2
    /\ last_txs[1] > last_txs[2]
    /\ todo # <<>>
    /\ Contains(last_txs, Head(todo))
    /\ Head(todo) \in emitted
    /\ new_txs = <<>>

(***************************************************************************)
(* The block watcher                                                       *)
(***************************************************************************)
\* C2: the heights of the emitted blocks strictly increase: of any two
\* consecutive emissions the later one is higher.
C2_EmittedHeightsIncrease ==
    bwEmitted[1] # None => bwEmitted[1] < bwEmitted[2]

\* C4 as stated: the first cycle whose height query succeeds fetches the
\* block at the returned height.
C4_FirstCycleFetches == bwFirst # "skipped"

\* C4 as amended: the first cycle whose height query succeeds calls no
\* get_block and emits nothing; it only sets last_block_number to the
\* returned height.
C4_FirstCycleOnlyRecords ==
    /\ bwFirst # "fetched"
    /\ bwFirst = "skipped" =>
          /\ bwEmitted = <<None, None>>
          /\ blockQueue = <<>>
          /\ bwItem = None
          /\ bwPc \in {"sleep", "query"}
          /\ current_block # None
          /\ last_block_number = current_block

\* The first successful query is over: only the height was recorded.
C4_Witness ==
    /\ bwFirst = "skipped"
    /\ bwPc = "sleep"
    /\ last_block_number = MaxHeight


\* C17: at the end of every cycle last_block_number is the height of the
\* most recently emitted block, or absent if no block was emitted.
C17_LastHeightIsLastEmitted ==
    bwPc = "sleep" => last_block_number = bwEmitted[2]

\* C22: a failed height query changes neither last_block_number nor the
\* block channel and leads to the 1-second sleep; and as long as the
\* process runs, the watcher is at the start of a cycle again and again.
C22_QueryFailureOnlyDelays ==
    /\ [][BlockQueryErr =>
             /\ last_block_number' = last_block_number
             /\ blockQueue' = blockQueue
             /\ bwEmitted' = bwEmitted
             /\ bwPc' = "sleep"]_vars
    /\ (<>[]Running => []<>(bwPc = "query"))

\* The first cycle's query failed: the watcher sleeps, nothing is recorded.
C22_Witness ==
    /\ mainPc = "select"
    /\ bwPc = "sleep"
    /\ bwFirst = "none"
    /\ last_block_number = None
    /\ blockQueue = <<>>

\* The step hands the block at height h to the block channel.
BlockEmittedNow(h) ==
    /\ Len(blockQueue') = Len(blockQueue) + 1
    /\ blockQueue'[Len(blockQueue')] = h

\* The cycle is about to emit the block at bwItem and passes over height h,
\* which lies between last_block_number and bwItem and is not the height
\* emitted last.
PassedOver(h) ==
    /\ bwPc = "send"
    /\ last_block_number # None
    /\ last_block_number < h
    /\ h < bwItem
    /\ bwEmitted[2] # h

C24_QueuesBounded ==
    /\ Len(txQueue) <= TxCap
    /\ Len(blockQueue) <= BlockCap

\* The transaction channel is full and the poller waits to send.
C24_Witness ==
    /\ Len(txQueue) = TxCap
    /\ mpPc \in {"bulk_send", "fallback_send"}
    /\ tx # None

\* C27: Spawn starts the mempool task exactly under Pending, All and no
\* command, and the block watcher exactly under Blocks, All and no command;
\* under Pending the block channel stays empty, under Blocks the
\* transaction channel; and in every mode the loop is left only on the
\* interrupt.
C27_CommandFixesPollers ==
    [][/\ (mainPc = "spawn" /\ mainPc' # "spawn") =>
             /\ (mpPc' # "off") <=> (cfg.command \in {"Pending", "All", "None"})
             /\ (bwPc' # "off") <=> (cfg.command \in {"Blocks", "All", "None"})
       /\ cfg.command = "Pending" => (bwPc' = "off" /\ blockQueue' = <<>>)
       /\ cfg.command = "Blocks" => (mpPc' = "off" /\ txQueue' = <<>>)
       /\ mainPc = "select" =>
             \/ mainPc' = "select"
             \/ mainPc' = "exit_ok" /\ interruptQ = 1]_vars

\* No command was given: both tasks are spawned and the loop is running.
C27_Witness ==
    /\ cfg.command = "None"
    /\ mainPc = "select"
    /\ mpPc = "init"
    /\ bwPc = "query"

\* The step lets the sleep run only while nothing is ready, and a step that
\* receives an item leaves a new sleep behind.
SleepRestarts ==
    /\ (idle' > idle) => (NothingReady /\ idle' = idle + 1)
    /\ (Len(txQueue') < Len(txQueue) \/ Len(blockQueue') < Len(blockQueue))
          => (idle' = 0)

\* C28: the tick branch can be taken only when the sleep of the current
\* iteration has run its full second; the sleep only runs while nothing is
\* ready; and every receive starts the next iteration with a new sleep.
C28_TickNeedsIdleSecond ==
    /\ []((ENABLED Tick) => (idle = TickSeconds))
    /\ [][SleepRestarts]_vars

\* After transactions were received, a second has passed with nothing
\* ready: the tick branch can be taken.
C28_Witness ==
    /\ mainPc = "select"
    /\ idle = TickSeconds
    /\ emitted # {}
    /\ NothingReady

(***************************************************************************)
(* The process                                                             *)
(***************************************************************************)
ConnectFailed == connResult \in {"invalid_endpoint", "timeout", "rpc_error", "fatal"}

=============================================================================
